---- MODULE Spec2Model ----
(***************************************************************************)
(* A model of the M-of-N multisignature wallet of multisig-rs:             *)
(* transaction identity and signing payload (transaction.rs), the signing  *)
(* primitives (crypto.rs) and the wallet state machine (wallet.rs).        *)
(*                                                                         *)
(* Rust strings and byte vectors are TLA+ strings.  SHA-256 and the hex    *)
(* and compact encodings are modelled as injective wrappers of their input *)
(* (the hash is taken to be collision-free); ECDSA is modelled ideally: a  *)
(* signature records the key that made it and the digest it was made over  *)
(* (sign_ecdsa is deterministic), and verifies under exactly that key and  *)
(* digest.                                                                 *)
(***************************************************************************)
EXTENDS Integers, Sequences, FiniteSets, TLC

VARIABLES
    constructed,           \* a wallet value exists (new returned Ok)
    threshold,             \* MultisigWallet.threshold
    total_signers,         \* MultisigWallet.total_signers
    authorized_keys,       \* MultisigWallet.authorized_keys     (Vec<PublicKey>)
    authorized_keys_hex,   \* MultisigWallet.authorized_keys_hex (Vec<String>)
    pending_transactions,  \* MultisigWallet.pending_transactions (HashMap)
    call,                  \* the last operation called, with its arguments
    result,                \* what that call returned
    executed_once,         \* history: the ids execute_transaction returned Ok for
    admitted,              \* history: per tracked id, the keys whose add_signature
                           \* returned Ok since the id was last proposed
    last_proposed,         \* history: per id, the transaction last proposed under it
    built,                 \* history: the arguments new returned Ok for
    tx_prev,               \* the transaction Transaction::new made before the last
    tx_last                \* the transaction Transaction::new made last

vars == <<constructed, threshold, total_signers, authorized_keys,
          authorized_keys_hex, pending_transactions, call, result,
          executed_once, admitted, last_proposed, built, tx_prev, tx_last>>

\* the transactions made by Transaction::new on its own
created == <<tx_prev, tx_last>>

wallet == <<threshold, total_signers, authorized_keys, authorized_keys_hex,
            pending_transactions>>

----------------------------------------------------------------------------
(* Bounds and input universes *)

\* longest key list handed to new
MaxSigners == 2

\* public keys (curve points); key i is the public key of secret key i
Keys == {1, 2, 3}

\* the keys callers put into a wallet's key list; key 3 is always an outsider
ListedKeys == {1, 2}

Range(s) == {s[i] : i \in DOMAIN s}

\* the key lists handed to new: the empty list and the lists of listed keys
\* that name key 1 first (keys 1 and 2 are interchangeable), repeats allowed
KeyLists ==
    {keys \in UNION {[1..n -> ListedKeys] : n \in 0..MaxSigners} :
        keys # << >> => keys[1] = 1}

----------------------------------------------------------------------------
(* crypto.rs *)

\* SHA-256, collision-free
hash_message(message) == "sha256(" \o message \o ")"

\* hex::encode of a byte string
hex_encode(bytes) == "hex(" \o bytes \o ")"

\* PublicKey::serialize, the 33-byte compressed point
serialize(pk) == "02" \o ToString(pk)

\* Signature::serialize_compact
serialize_compact(sig) == ToString(sig.signer) \o "/" \o sig.digest

Signature(sk, digest) == [signer |-> sk, digest |-> digest]

NoSig == Signature(0, "")

sign_message(message, secret_key) == Signature(secret_key, hash_message(message))

\* bug: only the signer is checked, not what was signed
verify_signature_ignores_message(message, signature, public_key) ==
    signature.signer = public_key

verify_signature(message, signature, public_key) ==
    /\ signature.signer = public_key
    /\ signature.digest = hash_message(message)

----------------------------------------------------------------------------
(* transaction.rs *)

None == << >>
Some(s) == <<s>>
unwrap_or(opt, default) == IF opt = None THEN default ELSE opt[1]

calculate_id(tx) ==
    hex_encode(hash_message(
        tx.recipient \o ":" \o ToString(tx.amount) \o ":"
        \o unwrap_or(tx.metadata, "") \o ":" \o ToString(tx.timestamp)
        \o ":" \o ToString(tx.nonce)))

\* Transaction::new; the clock reading and the random nonce are inputs
TransactionNew(recipient, amount, metadata, timestamp, nonce) ==
    LET tx == [id |-> "", recipient |-> recipient, amount |-> amount,
               metadata |-> metadata, timestamp |-> timestamp, nonce |-> nonce]
    IN  [tx EXCEPT !.id = calculate_id(tx)]

\* bug: absent metadata is written like calculate_id writes it, as the
\* empty string, so that absent and empty metadata give the same bytes
to_bytes_metadata_or_empty(tx) ==
    "{\"id\":\"" \o tx.id \o "\",\"recipient\":\"" \o tx.recipient
    \o "\",\"amount\":" \o ToString(tx.amount)
    \o ",\"metadata\":\"" \o unwrap_or(tx.metadata, "") \o "\""
    \o ",\"timestamp\":" \o ToString(tx.timestamp)
    \o ",\"nonce\":" \o ToString(tx.nonce) \o "}"

\* serde_json::to_vec of the six fields in declaration order
to_bytes(tx) ==
    "{\"id\":\"" \o tx.id \o "\",\"recipient\":\"" \o tx.recipient
    \o "\",\"amount\":" \o ToString(tx.amount)
    \o ",\"metadata\":"
    \o (IF tx.metadata = None THEN "null" ELSE "\"" \o tx.metadata[1] \o "\"")
    \o ",\"timestamp\":" \o ToString(tx.timestamp)
    \o ",\"nonce\":" \o ToString(tx.nonce) \o "}"

sign(tx, secret_key) == sign_message(to_bytes(tx), secret_key)

NoTx == [id |-> "", recipient |-> "", amount |-> 0, metadata |-> None,
         timestamp |-> 0, nonce |-> 0]

\* the transactions callers create: TxA and TxA2 differ only in metadata
\* (absent, present and empty), TxB differs in amount
TxA  == TransactionNew("bob", 1000, None, 1, 7)
TxA2 == TransactionNew("bob", 1000, Some(""), 1, 7)
TxB  == TransactionNew("bob", 5000, None, 1, 7)

Txs == {TxA, TxA2, TxB}

TxIds == {tx.id : tx \in Txs}

\* the signatures callers can hold: any key's over any transaction
Signatures == {sign(tx, sk) : sk \in Keys, tx \in Txs}

\* what callers hand to add_signature: a signature under its signer's key,
\* or under the key of another listed signer
Submissions ==
    {s \in Signatures \X Keys :
        s[1].signer = s[2] \/ {s[1].signer, s[2]} \subseteq ListedKeys}

----------------------------------------------------------------------------
(* error.rs and the values operations return *)

NoInfo == [threshold |-> 0, total_signers |-> 0, pending_count |-> 0]

\* a returned value: kind is "Ok" or the MultisigError variant; the other
\* fields carry the variant's fields or the Ok payload and are zero otherwise
Ret(kind) ==
    [kind |-> kind, m |-> 0, n |-> 0, required |-> 0, actual |-> 0,
     value |-> 0, flag |-> FALSE, tx |-> NoTx, info |-> NoInfo]

NoRet == Ret("None")

InvalidThreshold(m, n) == [Ret("InvalidThreshold") EXCEPT !.m = m, !.n = n]

InsufficientSignatures(required, actual) ==
    [Ret("InsufficientSignatures") EXCEPT !.required = required, !.actual = actual]

ErrorKinds ==
    {"InvalidSignature", "InsufficientSignatures", "UnauthorizedSigner",
     "TransactionAlreadyExecuted", "InvalidThreshold", "DuplicateSignature",
     "TransactionNotFound"}

IsErr(r) == r.kind \in ErrorKinds

----------------------------------------------------------------------------
(* wallet.rs *)

EmptyMap == [x \in {} |-> 0]

\* HashMap::insert
Insert(map, key, val) ==
    [x \in (DOMAIN map) \cup {key} |-> IF x = key THEN val ELSE map[x]]

\* HashMap::len
MapLen(map) == Cardinality(DOMAIN map)

PendingTransaction(transaction, signatures, executed) ==
    [transaction |-> transaction, signatures |-> signatures, executed |-> executed]

MultisigWallet(m, n, keys, keys_hex, pending) ==
    [threshold |-> m, total_signers |-> n, authorized_keys |-> keys,
     authorized_keys_hex |-> keys_hex, pending_transactions |-> pending]

\* the wallet the variables hold
Self ==
    MultisigWallet(threshold, total_signers, authorized_keys,
                   authorized_keys_hex, pending_transactions)

\* bug: the threshold == 0 test is missing
new_no_zero_check(m, keys) ==
    LET n == Len(keys) IN
    IF m > n
    THEN [res |-> InvalidThreshold(m, n), ok |-> FALSE,
          wallet |-> MultisigWallet(0, 0, << >>, << >>, EmptyMap)]
    ELSE [res |-> Ret("Ok"), ok |-> TRUE,
          wallet |-> MultisigWallet(m, n, keys,
                        [i \in 1..n |-> hex_encode(serialize(keys[i]))],
                        EmptyMap)]

\* bug: threshold and total_signers are initialised from each other's value
new_swaps_counts(m, keys) ==
    LET n == Len(keys) IN
    IF m = 0 \/ m > n
    THEN [res |-> InvalidThreshold(m, n), ok |-> FALSE,
          wallet |-> MultisigWallet(0, 0, << >>, << >>, EmptyMap)]
    ELSE [res |-> Ret("Ok"), ok |-> TRUE,
          wallet |-> MultisigWallet(n, m, keys,
                        [i \in 1..n |-> hex_encode(serialize(keys[i]))],
                        EmptyMap)]

\* MultisigWallet::new: the returned value and, when Ok, the wallet
new(m, keys) ==
    LET n == Len(keys) IN
    IF m = 0 \/ m > n
    THEN [res |-> InvalidThreshold(m, n), ok |-> FALSE,
          wallet |-> MultisigWallet(0, 0, << >>, << >>, EmptyMap)]
    ELSE [res |-> Ret("Ok"), ok |-> TRUE,
          wallet |-> MultisigWallet(m, n, keys,
                        [i \in 1..n |-> hex_encode(serialize(keys[i]))],
                        EmptyMap)]

\* bug: entry(tx_id).or_insert(pending), an existing record is kept
propose_transaction_keeps_existing(self, transaction) ==
    [res |-> Ret("Ok"),
     pending |-> IF transaction.id \in DOMAIN self.pending_transactions
                 THEN self.pending_transactions
                 ELSE Insert(self.pending_transactions, transaction.id,
                             PendingTransaction(transaction, EmptyMap, FALSE))]

\* MultisigWallet::propose_transaction
propose_transaction(self, transaction) ==
    [res |-> Ret("Ok"),
     pending |-> Insert(self.pending_transactions, transaction.id,
                        PendingTransaction(transaction, EmptyMap, FALSE))]

\* bug: any(|pk| pk == pk), each listed key compared with itself
is_authorized_self_compare(self, pubkey) ==
    \E i \in DOMAIN self.authorized_keys :
        self.authorized_keys[i] = self.authorized_keys[i]

\* MultisigWallet::is_authorized
is_authorized(self, pubkey) ==
    \E i \in DOMAIN self.authorized_keys : self.authorized_keys[i] = pubkey

\* bug: the duplicate lookup uses the signature's hex, not the signer's
is_duplicate_by_sig(pending, pubkey_hex, sig_hex) ==
    sig_hex \in DOMAIN pending.signatures

\* add_signature's duplicate check: signatures.contains_key(&pubkey_hex)
is_duplicate(pending, pubkey_hex, sig_hex) ==
    pubkey_hex \in DOMAIN pending.signatures

\* bug: the record is looked up before the signer is authorized
add_signature_lookup_first(self, tx_id, signature, signer_pubkey) ==
    LET same == self.pending_transactions
        fail(kind) == [res |-> Ret(kind), pending |-> same]
    IN
    IF tx_id \notin DOMAIN same THEN fail("TransactionNotFound")
    ELSE IF ~is_authorized(self, signer_pubkey) THEN fail("UnauthorizedSigner")
    ELSE
      LET pending == same[tx_id]
          tx_bytes == to_bytes(pending.transaction)
          is_valid == verify_signature(tx_bytes, signature, signer_pubkey)
          pubkey_hex == hex_encode(serialize(signer_pubkey))
          sig_hex == hex_encode(serialize_compact(signature))
      IN
      IF pending.executed THEN fail("TransactionAlreadyExecuted")
      ELSE IF ~is_valid THEN fail("InvalidSignature")
      ELSE IF is_duplicate(pending, pubkey_hex, sig_hex)
           THEN fail("DuplicateSignature")
      ELSE [res |-> Ret("Ok"),
            pending |-> [same EXCEPT ![tx_id].signatures =
                            Insert(pending.signatures, pubkey_hex, sig_hex)]]

\* bug: the admitted signature replaces the mapping instead of joining it
add_signature_resets_signatures(self, tx_id, signature, signer_pubkey) ==
    LET same == self.pending_transactions
        fail(kind) == [res |-> Ret(kind), pending |-> same]
    IN
    IF ~is_authorized(self, signer_pubkey) THEN fail("UnauthorizedSigner")
    ELSE IF tx_id \notin DOMAIN same THEN fail("TransactionNotFound")
    ELSE
      LET pending == same[tx_id]
          tx_bytes == to_bytes(pending.transaction)
          is_valid == verify_signature(tx_bytes, signature, signer_pubkey)
          pubkey_hex == hex_encode(serialize(signer_pubkey))
          sig_hex == hex_encode(serialize_compact(signature))
      IN
      IF pending.executed THEN fail("TransactionAlreadyExecuted")
      ELSE IF ~is_valid THEN fail("InvalidSignature")
      ELSE IF is_duplicate(pending, pubkey_hex, sig_hex)
           THEN fail("DuplicateSignature")
      ELSE [res |-> Ret("Ok"),
            pending |-> [same EXCEPT ![tx_id].signatures =
                            Insert(EmptyMap, pubkey_hex, sig_hex)]]

\* MultisigWallet::add_signature
add_signature(self, tx_id, signature, signer_pubkey) ==
    LET same == self.pending_transactions
        fail(kind) == [res |-> Ret(kind), pending |-> same]
    IN
    IF ~is_authorized(self, signer_pubkey) THEN fail("UnauthorizedSigner")
    ELSE IF tx_id \notin DOMAIN same THEN fail("TransactionNotFound")
    ELSE
      LET pending == same[tx_id]
          tx_bytes == to_bytes(pending.transaction)
          is_valid == verify_signature(tx_bytes, signature, signer_pubkey)
          pubkey_hex == hex_encode(serialize(signer_pubkey))
          sig_hex == hex_encode(serialize_compact(signature))
      IN
      IF pending.executed THEN fail("TransactionAlreadyExecuted")
      ELSE IF ~is_valid THEN fail("InvalidSignature")
      ELSE IF is_duplicate(pending, pubkey_hex, sig_hex)
           THEN fail("DuplicateSignature")
      ELSE [res |-> Ret("Ok"),
            pending |-> [same EXCEPT ![tx_id].signatures =
                            Insert(pending.signatures, pubkey_hex, sig_hex)]]

\* bug: off by one, one signature short of the threshold is enough
has_enough_signatures_one_short(self, tx_id) ==
    IF tx_id \notin DOMAIN self.pending_transactions
    THEN Ret("TransactionNotFound")
    ELSE [Ret("Ok") EXCEPT !.flag =
            MapLen(self.pending_transactions[tx_id].signatures) + 1 >= self.threshold]

\* bug: > where >= is meant
has_enough_signatures_strict(self, tx_id) ==
    IF tx_id \notin DOMAIN self.pending_transactions
    THEN Ret("TransactionNotFound")
    ELSE [Ret("Ok") EXCEPT !.flag =
            MapLen(self.pending_transactions[tx_id].signatures) > self.threshold]

\* bug: a missing record counts as "not enough" instead of being an error
has_enough_signatures_absent_is_false(self, tx_id) ==
    IF tx_id \notin DOMAIN self.pending_transactions
    THEN [Ret("Ok") EXCEPT !.flag = FALSE]
    ELSE [Ret("Ok") EXCEPT !.flag =
            MapLen(self.pending_transactions[tx_id].signatures) >= self.threshold]

\* MultisigWallet::has_enough_signatures
has_enough_signatures(self, tx_id) ==
    IF tx_id \notin DOMAIN self.pending_transactions
    THEN Ret("TransactionNotFound")
    ELSE [Ret("Ok") EXCEPT !.flag =
            MapLen(self.pending_transactions[tx_id].signatures) >= self.threshold]

\* MultisigWallet::get_signature_count
get_signature_count(self, tx_id) ==
    IF tx_id \notin DOMAIN self.pending_transactions
    THEN Ret("TransactionNotFound")
    ELSE [Ret("Ok") EXCEPT !.value =
            MapLen(self.pending_transactions[tx_id].signatures)]

\* bug: the record is marked executed before the signature count is checked
execute_transaction_marks_first(self, tx_id) ==
    LET same == self.pending_transactions
        enough == has_enough_signatures(self, tx_id)
    IN
    IF IsErr(enough) THEN [res |-> enough, pending |-> same]
    ELSE IF same[tx_id].executed
    THEN [res |-> Ret("TransactionAlreadyExecuted"), pending |-> same]
    ELSE IF ~enough.flag
    THEN [res |-> InsufficientSignatures(self.threshold,
                                         MapLen(same[tx_id].signatures)),
          pending |-> [same EXCEPT ![tx_id].executed = TRUE]]
    ELSE [res |-> [Ret("Ok") EXCEPT !.tx = same[tx_id].transaction],
          pending |-> [same EXCEPT ![tx_id].executed = TRUE]]

\* bug: the signatures are dropped when the record is marked executed
execute_transaction_clears_signatures(self, tx_id) ==
    LET same == self.pending_transactions
        enough == has_enough_signatures(self, tx_id)
    IN
    IF IsErr(enough) THEN [res |-> enough, pending |-> same]
    ELSE IF ~enough.flag
    THEN [res |-> InsufficientSignatures(self.threshold,
                                         MapLen(same[tx_id].signatures)),
          pending |-> same]
    ELSE IF same[tx_id].executed
    THEN [res |-> Ret("TransactionAlreadyExecuted"), pending |-> same]
    ELSE [res |-> [Ret("Ok") EXCEPT !.tx = same[tx_id].transaction],
          pending |-> [same EXCEPT ![tx_id].executed = TRUE,
                                   ![tx_id].signatures = EmptyMap]]

\* MultisigWallet::execute_transaction
execute_transaction(self, tx_id) ==
    LET same == self.pending_transactions
        enough == has_enough_signatures(self, tx_id)
    IN
    IF IsErr(enough) THEN [res |-> enough, pending |-> same]
    ELSE IF ~enough.flag
    THEN \* get(tx_id).unwrap(): a None here is a panic, the wallet is untouched
         IF tx_id \notin DOMAIN same
         THEN [res |-> Ret("Panic"), pending |-> same]
         ELSE [res |-> InsufficientSignatures(self.threshold,
                                              MapLen(same[tx_id].signatures)),
               pending |-> same]
    ELSE IF tx_id \notin DOMAIN same
    THEN [res |-> Ret("TransactionNotFound"), pending |-> same]
    ELSE IF same[tx_id].executed
    THEN [res |-> Ret("TransactionAlreadyExecuted"), pending |-> same]
    ELSE [res |-> [Ret("Ok") EXCEPT !.tx = same[tx_id].transaction],
          pending |-> [same EXCEPT ![tx_id].executed = TRUE]]

\* bug: pending_count counts only the records still awaiting execution
info_counts_unexecuted(self) ==
    [Ret("Ok") EXCEPT !.info =
        [threshold |-> self.threshold, total_signers |-> self.total_signers,
         pending_count |->
            Cardinality({id \in DOMAIN self.pending_transactions :
                            ~self.pending_transactions[id].executed})]]

\* MultisigWallet::info
info(self) ==
    [Ret("Ok") EXCEPT !.info =
        [threshold |-> self.threshold, total_signers |-> self.total_signers,
         pending_count |-> MapLen(self.pending_transactions)]]

----------------------------------------------------------------------------
(* The caller: one wallet, any sequence of calls with any arguments *)

Call(op) ==
    [op |-> op, threshold |-> 0, keys |-> << >>, tx |-> NoTx, tx_id |-> "",
     signature |-> NoSig, pk |-> 0]

Init ==
    /\ constructed = FALSE
    /\ threshold = 0
    /\ total_signers = 0
    /\ authorized_keys = << >>
    /\ authorized_keys_hex = << >>
    /\ pending_transactions = EmptyMap
    /\ call = Call("none")
    /\ result = NoRet
    /\ executed_once = {}
    /\ admitted = EmptyMap
    /\ last_proposed = EmptyMap
    /\ built = [threshold |-> 0, keys |-> << >>]
    /\ tx_prev = NoTx
    /\ tx_last = NoTx

New(m, keys) ==
    /\ ~constructed
    /\ LET r == new(m, keys) IN
        /\ result' = r.res
        /\ constructed' = r.ok
        /\ IF r.ok
           THEN /\ threshold' = r.wallet.threshold
                /\ total_signers' = r.wallet.total_signers
                /\ authorized_keys' = r.wallet.authorized_keys
                /\ authorized_keys_hex' = r.wallet.authorized_keys_hex
                /\ pending_transactions' = r.wallet.pending_transactions
           ELSE UNCHANGED wallet
    /\ call' = [Call("new") EXCEPT !.threshold = m, !.keys = keys]
    /\ built' = IF new(m, keys).ok THEN [threshold |-> m, keys |-> keys] ELSE built
    /\ UNCHANGED <<executed_once, admitted, last_proposed, created>>

Propose(tx) ==
    /\ constructed
    /\ LET r == propose_transaction(Self, tx) IN
        /\ result' = r.res
        /\ pending_transactions' = r.pending
    /\ call' = [Call("propose_transaction") EXCEPT !.tx = tx]
    /\ admitted' = Insert(admitted, tx.id, {})
    /\ last_proposed' = Insert(last_proposed, tx.id, tx)
    /\ UNCHANGED <<executed_once, built, created>>
    /\ UNCHANGED <<constructed, threshold, total_signers, authorized_keys,
                   authorized_keys_hex>>

AddSignature(tx_id, signature, pk) ==
    /\ constructed
    /\ LET r == add_signature(Self, tx_id, signature, pk) IN
        /\ result' = r.res
        /\ pending_transactions' = r.pending
        /\ admitted' = IF r.res.kind = "Ok"
                       THEN [admitted EXCEPT ![tx_id] = @ \cup {pk}]
                       ELSE admitted
    /\ call' = [Call("add_signature") EXCEPT
                    !.tx_id = tx_id, !.signature = signature, !.pk = pk]
    /\ UNCHANGED <<executed_once, last_proposed, built, created>>
    /\ UNCHANGED <<constructed, threshold, total_signers, authorized_keys,
                   authorized_keys_hex>>

Execute(tx_id) ==
    /\ constructed
    /\ LET r == execute_transaction(Self, tx_id) IN
        /\ result' = r.res
        /\ pending_transactions' = r.pending
        /\ executed_once' = IF r.res.kind = "Ok"
                            THEN executed_once \cup {tx_id}
                            ELSE executed_once
    /\ call' = [Call("execute_transaction") EXCEPT !.tx_id = tx_id]
    /\ UNCHANGED <<admitted, last_proposed, built, created>>
    /\ UNCHANGED <<constructed, threshold, total_signers, authorized_keys,
                   authorized_keys_hex>>

HasEnoughSignatures(tx_id) ==
    /\ constructed
    /\ result' = has_enough_signatures(Self, tx_id)
    /\ call' = [Call("has_enough_signatures") EXCEPT !.tx_id = tx_id]
    /\ UNCHANGED <<constructed, wallet, executed_once, admitted, last_proposed,
                   built, created>>

GetSignatureCount(tx_id) ==
    /\ constructed
    /\ result' = get_signature_count(Self, tx_id)
    /\ call' = [Call("get_signature_count") EXCEPT !.tx_id = tx_id]
    /\ UNCHANGED <<constructed, wallet, executed_once, admitted, last_proposed,
                   built, created>>

Info ==
    /\ constructed
    /\ result' = info(Self)
    /\ call' = Call("info")
    /\ UNCHANGED <<constructed, wallet, executed_once, admitted, last_proposed,
                   built, created>>

Next ==
    \/ \E m \in 0..(MaxSigners + 1), keys \in KeyLists : New(m, keys)
    \/ \E tx \in Txs : Propose(tx)
    \/ \E tx_id \in TxIds, s \in Submissions : AddSignature(tx_id, s[1], s[2])
    \/ \E tx_id \in TxIds : Execute(tx_id)
    \/ \E tx_id \in TxIds : HasEnoughSignatures(tx_id)
    \/ \E tx_id \in TxIds : GetSignatureCount(tx_id)
    \/ Info

Spec == Init /\ [][Next]_vars

----------------------------------------------------------------------------
(* Transaction::new on its own: callers make transactions from any fields *)

\* field values callers pass, with ":" inside recipient and metadata
Recipients == {"bob", "bob:1"}
Amounts == {1, 2}
Metadatas == {None, Some(""), Some("2:")}
Timestamps == {1, 2}
NonceValues == {7}

Create(recipient, amount, metadata, timestamp, nonce) ==
    /\ tx_prev' = tx_last
    /\ tx_last' = TransactionNew(recipient, amount, metadata, timestamp, nonce)
    /\ UNCHANGED <<constructed, wallet, call, result, executed_once, admitted,
                   last_proposed, built>>

NextId ==
    \E recipient \in Recipients, amount \in Amounts, metadata \in Metadatas,
       timestamp \in Timestamps, nonce \in NonceValues :
          Create(recipient, amount, metadata, timestamp, nonce)

SpecId == Init /\ [][NextId]_vars

----------------------------------------------------------------------------
(* The derived Serialize / Deserialize of MultisigWallet *)

\* Serialize: every field but authorized_keys, which is #[serde(skip)]
to_serialized(self) ==
    [threshold |-> self.threshold, total_signers |-> self.total_signers,
     authorized_keys_hex |-> self.authorized_keys_hex,
     pending_transactions |-> self.pending_transactions]

\* Deserialize: the skipped field takes Vec::default()
from_serialized(doc) ==
    MultisigWallet(doc.threshold, doc.total_signers, << >>,
                   doc.authorized_keys_hex, doc.pending_transactions)

\* the wallet is replaced by the one restored from its own serialization
Restore ==
    /\ constructed
    /\ LET w == from_serialized(to_serialized(Self)) IN
        /\ threshold' = w.threshold
        /\ total_signers' = w.total_signers
        /\ authorized_keys' = w.authorized_keys
        /\ authorized_keys_hex' = w.authorized_keys_hex
        /\ pending_transactions' = w.pending_transactions
    /\ call' = Call("restore")
    /\ result' = Ret("Ok")
    /\ UNCHANGED <<constructed, executed_once, admitted, last_proposed, built,
                   created>>

NextSerde ==
    \/ Next
    \/ Restore

SpecSerde == Init /\ [][NextSerde]_vars

----------------------------------------------------------------------------
(* Vocabulary of the properties *)

Authorized(pk) == pk \in Range(authorized_keys)

Tracked(id) == id \in DOMAIN pending_transactions

Record(id) == pending_transactions[id]

Count(id) == Cardinality(DOMAIN Record(id).signatures)

\* the lifecycle state of section 4.2
TxState(pending, id) ==
    IF id \notin DOMAIN pending THEN "Unknown"
    ELSE IF pending[id].executed THEN "Executed"
    ELSE IF Cardinality(DOMAIN pending[id].signatures) >= threshold THEN "Approved"
    ELSE "Proposed"

\* the step is a call of add_signature with these arguments
AddSignatureCalled(id, sig, pk) ==
    /\ call'.op = "add_signature"
    /\ call'.tx_id = id
    /\ call'.signature = sig
    /\ call'.pk = pk

ExecuteCalled(id) ==
    /\ call'.op = "execute_transaction"
    /\ call'.tx_id = id

----------------------------------------------------------------------------
\* threshold, total_signers and both key lists are the same after the step
PolicyUnchanged ==
    /\ constructed' = constructed
    /\ threshold' = threshold
    /\ total_signers' = total_signers
    /\ authorized_keys' = authorized_keys
    /\ authorized_keys_hex' = authorized_keys_hex

ProposeCalled(tx) ==
    /\ call'.op = "propose_transaction"
    /\ call'.tx = tx

----------------------------------------------------------------------------
(* C1: once execute_transaction has returned Ok for an id, every later      *)
(* execute_transaction on that id fails with TransactionAlreadyExecuted,    *)
(* whatever calls happen in between.                                        *)
C1_ReexecutionAlwaysRejected ==
    [][\A id \in TxIds :
          (id \in executed_once /\ ExecuteCalled(id))
              => result'.kind = "TransactionAlreadyExecuted"]_vars

(* C2: a tracked record never leaves Executed (its flag never goes back to  *)
(* false), and the only state changes of a tracked transaction are          *)
(* Proposed to Approved and Approved to Executed.                           *)
C2_ExecutedIsTerminal ==
    [][\A id \in DOMAIN pending_transactions :
          LET before == TxState(pending_transactions, id)
              after  == TxState(pending_transactions', id)
          IN  \/ after = before
              \/ before = "Proposed" /\ after = "Approved"
              \/ before = "Approved" /\ after = "Executed"]_vars

(* C3: execute_transaction on a tracked id with fewer signatures than the   *)
(* threshold fails with InsufficientSignatures{required = threshold,        *)
(* actual = count}, returns no transaction and changes no record; it        *)
(* returns Ok only for a tracked id with at least threshold signatures.     *)
C3_ExecutionGated ==
    [][\A id \in TxIds :
          ExecuteCalled(id) =>
            /\ (Tracked(id) /\ Count(id) < threshold) =>
                  /\ result'.kind = "InsufficientSignatures"
                  /\ result'.required = threshold
                  /\ result'.actual = Count(id)
                  /\ result'.tx = NoTx
                  /\ pending_transactions' = pending_transactions
            /\ result'.kind = "Ok" =>
                  (Tracked(id) /\ Count(id) >= threshold)]_vars

\* the second scenario of section 8: a 2-of-N wallet, one signature admitted
C3_Witness ==
    /\ call.op = "execute_transaction"
    /\ Tracked(call.tx_id)
    /\ result.kind = "InsufficientSignatures"
    /\ result.required = 2
    /\ result.actual = 1
    /\ ~Record(call.tx_id).executed

(* C4: add_signature under a key that is not in the authorized list fails   *)
(* with UnauthorizedSigner and changes no record, also when the signature   *)
(* is valid over the transaction's bytes.                                   *)
C4_UnauthorizedRejected ==
    [][\A id \in TxIds, s \in Submissions :
          (AddSignatureCalled(id, s[1], s[2]) /\ ~Authorized(s[2]))
              => /\ result'.kind = "UnauthorizedSigner"
                 /\ pending_transactions' = pending_transactions]_vars

\* an outsider submits its own valid signature on a pending transaction
C4_Witness ==
    /\ call.op = "add_signature"
    /\ ~Authorized(call.pk)
    /\ Tracked(call.tx_id)
    /\ ~Record(call.tx_id).executed
    /\ call.signature = sign(Record(call.tx_id).transaction, call.pk)
    /\ result.kind = "UnauthorizedSigner"

(* C5: when an authorized signer's signature has been admitted for a        *)
(* pending, non-executed transaction, a second valid signature from that    *)
(* signer for the same id fails with DuplicateSignature and leaves every    *)
(* record, its signature count and stored signatures included, unchanged.   *)
C5_NoDoubleCounting ==
    [][\A id \in TxIds, pk \in Keys :
          ( /\ Tracked(id)
            /\ ~Record(id).executed
            /\ Authorized(pk)
            /\ pk \in admitted[id]
            /\ AddSignatureCalled(id, sign(Record(id).transaction, pk), pk) )
              => /\ result'.kind = "DuplicateSignature"
                 /\ pending_transactions' = pending_transactions]_vars

C5_Witness ==
    /\ call.op = "add_signature"
    /\ Tracked(call.tx_id)
    /\ ~Record(call.tx_id).executed
    /\ call.pk \in admitted[call.tx_id]
    /\ call.signature = sign(Record(call.tx_id).transaction, call.pk)
    /\ result.kind = "DuplicateSignature"
    /\ Count(call.tx_id) = 1

(* C6: when K signatures of K distinct authorized signers have been         *)
(* admitted for a transaction since it was proposed, get_signature_count    *)
(* returns K and has_enough_signatures returns (K >= threshold).            *)
C6_CountIsAdmitted ==
    /\ DOMAIN admitted = DOMAIN pending_transactions
    /\ \A id \in DOMAIN pending_transactions :
          LET K == Cardinality(admitted[id]) IN
          /\ admitted[id] \subseteq Range(authorized_keys)
          /\ get_signature_count(Self, id).kind = "Ok"
          /\ get_signature_count(Self, id).value = K
          /\ has_enough_signatures(Self, id).kind = "Ok"
          /\ has_enough_signatures(Self, id).flag = (K >= threshold)

\* both signers admitted on a 2-of-2 wallet
C6_Witness ==
    /\ call.op = "has_enough_signatures"
    /\ Tracked(call.tx_id)
    /\ Cardinality(admitted[call.tx_id]) = 2
    /\ threshold = 2
    /\ result.kind = "Ok"
    /\ result.flag = TRUE

(* C7: new(M, keys) with N = Len(keys) returns Ok iff 1 <= M <= N and       *)
(* otherwise fails with InvalidThreshold{m = M, n = N} and produces no      *)
(* wallet; every wallet that exists has 1 <= threshold <= total_signers.    *)
C7_ThresholdBoundary ==
    /\ call.op = "new" =>
          LET M == call.threshold
              N == Len(call.keys)
          IN  IF 1 <= M /\ M <= N
              THEN /\ result.kind = "Ok"
                   /\ constructed
                   /\ threshold = M
                   /\ total_signers = N
              ELSE /\ result.kind = "InvalidThreshold"
                   /\ result.m = M
                   /\ result.n = N
                   /\ ~constructed
    /\ constructed => (1 <= threshold /\ threshold <= total_signers)

\* a wallet at the upper boundary M = N, some calls into its life
C7_Witness ==
    /\ constructed
    /\ threshold = total_signers
    /\ threshold = 2
    /\ pending_transactions # EmptyMap

(* C8: add_signature reports the first failing check in the order           *)
(* UnauthorizedSigner, TransactionNotFound, TransactionAlreadyExecuted,     *)
(* InvalidSignature, DuplicateSignature.                                    *)
C8_CheckOrder ==
    [][\A id \in TxIds, s \in Submissions :
          AddSignatureCalled(id, s[1], s[2]) =>
            result'.kind =
              IF ~Authorized(s[2]) THEN "UnauthorizedSigner"
              ELSE IF ~Tracked(id) THEN "TransactionNotFound"
              ELSE IF Record(id).executed THEN "TransactionAlreadyExecuted"
              ELSE IF s[1] # sign(Record(id).transaction, s[2])
                   THEN "InvalidSignature"
              ELSE IF s[2] \in admitted[id] THEN "DuplicateSignature"
              ELSE "Ok"]_vars

\* an invalid signature from a signer that is already recorded
C8_Witness ==
    /\ call.op = "add_signature"
    /\ Authorized(call.pk)
    /\ Tracked(call.tx_id)
    /\ ~Record(call.tx_id).executed
    /\ call.pk \in admitted[call.tx_id]
    /\ call.signature # sign(Record(call.tx_id).transaction, call.pk)
    /\ result.kind = "InvalidSignature"

(* C9: a call that returns an error leaves the whole wallet unchanged:      *)
(* threshold, authorized keys, the tracked ids and every record.            *)
C9_ErrorsChangeNothing ==
    [][result'.kind \in ErrorKinds =>
          /\ constructed' = constructed
          /\ threshold' = threshold
          /\ total_signers' = total_signers
          /\ authorized_keys' = authorized_keys
          /\ authorized_keys_hex' = authorized_keys_hex
          /\ pending_transactions' = pending_transactions]_vars

\* a failed execution on a record that already holds a signature
C9_Witness ==
    /\ call.op = "execute_transaction"
    /\ result.kind = "InsufficientSignatures"
    /\ Tracked(call.tx_id)
    /\ Count(call.tx_id) = 1
    /\ ~Record(call.tx_id).executed

(* C10: an authorized signer's signature over the bytes of transaction A,   *)
(* submitted against the id of a different pending transaction B, fails     *)
(* with InvalidSignature and leaves B's signatures unchanged.               *)
C10_TamperDetected ==
    [][\A id \in TxIds, A \in Txs, pk \in Keys :
          ( /\ Authorized(pk)
            /\ Tracked(id)
            /\ ~Record(id).executed
            /\ Record(id).transaction # A
            /\ AddSignatureCalled(id, sign(A, pk), pk) )
              => /\ result'.kind = "InvalidSignature"
                 /\ pending_transactions' = pending_transactions]_vars

\* a signature over TxA submitted after TxA2 replaced it under the same id
C10_Witness ==
    /\ call.op = "add_signature"
    /\ Authorized(call.pk)
    /\ Tracked(call.tx_id)
    /\ ~Record(call.tx_id).executed
    /\ Record(call.tx_id).transaction = TxA2
    /\ call.tx_id = TxA.id
    /\ call.signature = sign(TxA, call.pk)
    /\ result.kind = "InvalidSignature"

(* C11: the id is unique per (recipient, amount, metadata, timestamp,       *)
(* nonce) tuple: two transactions made by Transaction::new have equal ids   *)
(* exactly when the five fields are equal, the hash being collision-free.   *)
SameTuple(t1, t2) ==
    /\ t1.recipient = t2.recipient
    /\ t1.amount = t2.amount
    /\ t1.metadata = t2.metadata
    /\ t1.timestamp = t2.timestamp
    /\ t1.nonce = t2.nonce

C11_IdUniquePerTuple ==
    (tx_prev # NoTx /\ tx_last # NoTx)
        => (tx_prev.id = tx_last.id <=> SameTuple(tx_prev, tx_last))

(* C12: execute_transaction on a tracked, non-executed id with at least     *)
(* threshold signatures returns Ok with the transaction last proposed under *)
(* the id, sets that record's executed flag and changes nothing else.       *)
C12_ExecuteReturnsProposed ==
    [][\A id \in TxIds :
          ( /\ ExecuteCalled(id)
            /\ Tracked(id)
            /\ ~Record(id).executed
            /\ Count(id) >= threshold )
              => /\ result'.kind = "Ok"
                 /\ result'.tx = last_proposed[id]
                 /\ DOMAIN pending_transactions' = DOMAIN pending_transactions
                 /\ \A other \in DOMAIN pending_transactions :
                       pending_transactions'[other] =
                          IF other = id
                          THEN [transaction |-> last_proposed[id],
                                signatures |-> Record(id).signatures,
                                executed |-> TRUE]
                          ELSE Record(other)
                 /\ PolicyUnchanged]_vars

\* TxA2, proposed over TxA's id, is executed with both signatures while
\* another record waits with one
C12_Witness ==
    /\ call.op = "execute_transaction"
    /\ result.kind = "Ok"
    /\ result.tx = TxA2
    /\ Record(call.tx_id).executed
    /\ Count(call.tx_id) = 2
    /\ Tracked(TxB.id)
    /\ ~Record(TxB.id).executed
    /\ Count(TxB.id) = 1

(* C13: propose_transaction always returns Ok and leaves under the          *)
(* transaction's id a record with that transaction, no signatures and       *)
(* executed = false, replacing any record that was there; the records       *)
(* under all other ids are unchanged.                                       *)
C13_ProposeReplaces ==
    [][\A tx \in Txs :
          ProposeCalled(tx) =>
            /\ result'.kind = "Ok"
            /\ DOMAIN pending_transactions' =
                  DOMAIN pending_transactions \cup {tx.id}
            /\ pending_transactions'[tx.id] =
                  [transaction |-> tx, signatures |-> EmptyMap,
                   executed |-> FALSE]
            /\ \A other \in DOMAIN pending_transactions \ {tx.id} :
                  pending_transactions'[other] = Record(other)
            /\ PolicyUnchanged]_vars

\* a proposal over an executed record, beside a record that holds a signature
C13_Witness ==
    /\ call.op = "propose_transaction"
    /\ result.kind = "Ok"
    /\ call.tx.id \in executed_once
    /\ Record(call.tx.id).transaction = call.tx
    /\ Count(call.tx.id) = 0
    /\ ~Record(call.tx.id).executed
    /\ \E other \in DOMAIN pending_transactions \ {call.tx.id} :
          Count(other) = 1

(* C14: no operation removes an entry of pending_transactions:              *)
(* info().pending_count never decreases, counts executed records too and    *)
(* equals the number of distinct ids proposed so far; info changes no state.*)
PendingCount == info(Self).info.pending_count

C14_PendingNeverShrinks ==
    [][/\ DOMAIN pending_transactions \subseteq DOMAIN pending_transactions'
       /\ PendingCount' >= PendingCount
       /\ PendingCount' = Cardinality(DOMAIN last_proposed')
       /\ call'.op = "info" =>
             /\ result'.kind = "Ok"
             /\ result'.info.pending_count = Cardinality(DOMAIN last_proposed)
             /\ pending_transactions' = pending_transactions
             /\ PolicyUnchanged]_vars

\* info on a wallet with an executed and a waiting record reports both
C14_Witness ==
    /\ call.op = "info"
    /\ result.info.pending_count = 2
    /\ \E id \in DOMAIN pending_transactions : Record(id).executed
    /\ \E id \in DOMAIN pending_transactions : ~Record(id).executed

(* C15: a successful add_signature(tx_id, sig, pk) adds exactly one entry,   *)
(* keyed by pk's identifier, to the signature mapping of tx_id's record;    *)
(* that record's transaction and executed flag, every earlier signature,    *)
(* every other record, the tracked ids and the policy are unchanged.        *)
C15_AddSignatureFrame ==
    [][\A id \in TxIds, s \in Submissions :
          (AddSignatureCalled(id, s[1], s[2]) /\ result'.kind = "Ok") =>
            /\ Tracked(id)
            /\ DOMAIN pending_transactions' = DOMAIN pending_transactions
            /\ \A other \in DOMAIN pending_transactions \ {id} :
                  pending_transactions'[other] = Record(other)
            /\ pending_transactions'[id].transaction = Record(id).transaction
            /\ pending_transactions'[id].executed = Record(id).executed
            /\ LET key == hex_encode(serialize(s[2]))
                   old == Record(id).signatures
                   now == pending_transactions'[id].signatures
               IN  /\ key \notin DOMAIN old
                   /\ DOMAIN now = DOMAIN old \cup {key}
                   /\ now[key] = hex_encode(serialize_compact(s[1]))
                   /\ \A h \in DOMAIN old : now[h] = old[h]
            /\ PolicyUnchanged]_vars

\* the second signer is admitted and the first signature is still there
C15_Witness ==
    /\ call.op = "add_signature"
    /\ result.kind = "Ok"
    /\ Count(call.tx_id) = 2
    /\ \E other \in DOMAIN pending_transactions \ {call.tx_id} :
          Count(other) = 1

(* C16: the authorization policy is fixed for the wallet's lifetime: after  *)
(* any sequence of propose_transaction, add_signature, execute_transaction, *)
(* get_signature_count, has_enough_signatures and info calls, threshold,    *)
(* total_signers and the authorized keys are those of the construction.     *)
C16_PolicyFixed ==
    constructed =>
        /\ threshold = built.threshold
        /\ total_signers = Len(built.keys)
        /\ authorized_keys = built.keys
        /\ authorized_keys_hex =
              [i \in DOMAIN built.keys |-> hex_encode(serialize(built.keys[i]))]

\* a 1-of-2 wallet after a proposal, a signature, an execution and a query
C16_Witness ==
    /\ constructed
    /\ built.threshold = 1
    /\ Len(built.keys) = 2
    /\ executed_once # {}
    /\ call.op = "info"

(* C17: a wallet restored from its own serialized representation behaves   *)
(* like the original: threshold, total_signers and the pending map are      *)
(* preserved, and add_signature treats a key as authorized exactly when     *)
(* the original wallet did.                                                 *)
C17_RestoredBehavesAlike ==
    constructed =>
        /\ threshold = built.threshold
        /\ total_signers = Len(built.keys)
        /\ DOMAIN pending_transactions = DOMAIN last_proposed
        /\ \A id \in TxIds, s \in Submissions :
              (add_signature(Self, id, s[1], s[2]).res.kind = "UnauthorizedSigner")
                 <=> (s[2] \notin Range(built.keys))

(* C18: every entry of every record's signature mapping is keyed by the     *)
(* identifier of an authorized key and holds a signature that verifies      *)
(* under that key against the bytes of the transaction stored in the        *)
(* record; hence no count exceeds the number of distinct authorized keys.   *)
C18_StoredSignaturesValid ==
    \A id \in DOMAIN pending_transactions :
        /\ \A h \in DOMAIN Record(id).signatures :
              \E pk \in Range(authorized_keys) :
                 /\ h = hex_encode(serialize(pk))
                 /\ Record(id).signatures[h] =
                       hex_encode(serialize_compact(
                          sign(Record(id).transaction, pk)))
        /\ Count(id) <= Cardinality(Range(authorized_keys))

\* TxA2 stands under the id TxA was proposed and signed under, with the
\* signatures of both signers, after a signature over TxA was turned away
C18_Witness ==
    /\ Tracked(TxA.id)
    /\ Record(TxA.id).transaction = TxA2
    /\ Count(TxA.id) = 2
    /\ call.op = "add_signature"
    /\ call.tx_id = TxA.id
    /\ call.signature = sign(TxA, call.pk)
    /\ result.kind = "InvalidSignature"

(* C19: every record with executed = true holds at least threshold          *)
(* signatures; so execute_transaction on an executed record never returns   *)
(* InsufficientSignatures, although the count is checked before the flag.   *)
C19_ExecutedHaveThreshold ==
    /\ \A id \in DOMAIN pending_transactions :
          Record(id).executed => Count(id) >= threshold
    /\ ( /\ call.op = "execute_transaction"
         /\ Tracked(call.tx_id)
         /\ Record(call.tx_id).executed )
          => result.kind \in {"Ok", "TransactionAlreadyExecuted"}

\* a second execute_transaction on an executed record
C19_Witness ==
    /\ call.op = "execute_transaction"
    /\ Tracked(call.tx_id)
    /\ Record(call.tx_id).executed
    /\ Count(call.tx_id) = threshold
    /\ result.kind = "TransactionAlreadyExecuted"

(* C20: the threshold of every wallet new accepts is attainable, key lists  *)
(* with repeated keys included: the number of distinct authorized keys is   *)
(* at least threshold, so that enough add_signature calls by authorized     *)
(* signers make has_enough_signatures true and execute_transaction succeed. *)
C20_ThresholdAttainable ==
    constructed => Cardinality(Range(authorized_keys)) >= threshold

\* what a wallet that breaks C20 is left with: with fewer distinct keys than
\* threshold no record ever has enough signatures and nothing is executed
C20_ShortWalletNeverExecutes ==
    (constructed /\ Cardinality(Range(authorized_keys)) < threshold) =>
        /\ executed_once = {}
        /\ \A id \in DOMAIN pending_transactions :
              /\ ~has_enough_signatures(Self, id).flag
              /\ ~Record(id).executed

(* C21: execute_transaction never panics, in any reachable state and for    *)
(* any tx_id: for an id with no record it returns TransactionNotFound, as   *)
(* get_signature_count and has_enough_signatures do, and the unwrap of the  *)
(* insufficient-signatures branch is reached only when the record exists.   *)
C21_ExecuteNeverPanics ==
    /\ result.kind # "Panic"
    /\ ( /\ call.op \in {"execute_transaction", "get_signature_count",
                          "has_enough_signatures"}
         /\ ~Tracked(call.tx_id) )
          => result.kind = "TransactionNotFound"
    /\ constructed =>
          \A id \in TxIds :
              LET enough == has_enough_signatures(Self, id) IN
              /\ execute_transaction(Self, id).res.kind # "Panic"
              /\ (~IsErr(enough) /\ ~enough.flag) => Tracked(id)
              /\ ~Tracked(id) =>
                    /\ execute_transaction(Self, id).res.kind = "TransactionNotFound"
                    /\ get_signature_count(Self, id).kind = "TransactionNotFound"
                    /\ enough.kind = "TransactionNotFound"

\* execute_transaction on an id with no record, in a wallet that tracks
\* another transaction
C21_Witness ==
    /\ call.op = "execute_transaction"
    /\ ~Tracked(call.tx_id)
    /\ pending_transactions # EmptyMap
    /\ result.kind = "TransactionNotFound"

====
